---- MODULE Spec2Model ----
(***************************************************************************)
(* Model of package espoll (pkg/espoll/query.go): Client.Do, the request   *)
(* options and AllCondition.                                               *)
(*                                                                         *)
(* One call of Client.Do is modelled.  Durations are counted in units of   *)
(* 100ms.  The call blocks in two places, inside req.Do and inside the     *)
(* select of the loop; time passes (Advance) only while it is blocked.     *)
(***************************************************************************)
EXTENDS Integers, Sequences, FiniteSets, TLC

\* ------------------------------------------------------------------ bounds
\* The req.Do calls of one Client.Do call are counted up to MaxAttempts; the
\* counters stay there, so MaxAttempts stands for "MaxAttempts or more".
MaxAttempts == 4
\* Longest option list passed to Client.Do.
MaxOpts == 3
\* Longest list of conditions handed to AllCondition.
MaxConds == 2
\* While the deadline timer has more than Horizon units left, time passes
\* in one jump down to Horizon; below it, unit by unit.
Horizon == 3

\* ------------------------------------------------------- program constants
\* time.Minute, in units of 100ms
DefaultTimeout == 600
\* 100 * time.Millisecond, in units of 100ms
DefaultInterval == 1
\* esapi.Response.IsError: StatusCode > 299
MaxOkStatus == 299

\* ------------------------------------------------------------- input sets
TimeoutChoices == {-1, 0, 2}
IntervalChoices == {0, 2}
\* The conditions a test passes: predicates over the response.
Atoms == {"HasHits", "IsCreated"}
StatusCodes == {200, 201, 404}
\* Response bodies: an empty result, a result with one hit, a truncated one.
Bodies == { <<"{", "}">>, <<"{", "h", "}">>, <<"{", "h">> }
\* Request bodies: none, and two queries.
RequestBodies == { <<>>, <<"q">>, <<"q", "u">> }

RECURSIVE SeqsUpTo(_, _)
SeqsUpTo(S, n) ==
    IF n = 0 THEN { <<>> }
    ELSE LET shorter == SeqsUpTo(S, n - 1)
         IN  shorter \cup { Append(s, x) : s \in shorter, x \in S }

\* ------------------------------------------------------------ conditions
\* A ConditionFunc value: nil, or the function AllCondition(conds...) built.
NilCond == [isNil |-> TRUE, conds |-> <<>>]

\* The atomic conditions, evaluated on a response.
RECURSIVE CountHits(_)
CountHits(bytes) ==
    IF bytes = <<>> THEN 0
    ELSE (IF Head(bytes) = "h" THEN 1 ELSE 0) + CountHits(Tail(bytes))

EvalAtom(a, resp) ==
    IF a = "HasHits" THEN CountHits(resp.Body.data) >= 1
    ELSE resp.StatusCode = 201

\* AllCondition(conds...): the returned closure applied to resp.  The loop
\* over conds starting at index i; calls is the list of conditions invoked.
RECURSIVE AllConditionLoop(_, _, _, _)
AllConditionLoop(conds, resp, i, calls) ==
    IF i > Len(conds) THEN [result |-> TRUE, calls |-> calls]
    ELSE IF ~EvalAtom(conds[i], resp)
         THEN [result |-> FALSE, calls |-> Append(calls, i)]
         ELSE AllConditionLoop(conds, resp, i + 1, Append(calls, i))

\* AllCondition that invokes every condition and combines the results.
RECURSIVE AllConditionEagerLoop(_, _, _, _, _)
AllConditionEagerLoop(conds, resp, i, calls, result) ==
    IF i > Len(conds) THEN [result |-> result, calls |-> calls]
    ELSE AllConditionEagerLoop(conds, resp, i + 1, Append(calls, i),
                               result /\ EvalAtom(conds[i], resp))

AllConditionEager(conds, resp) == AllConditionEagerLoop(conds, resp, 1, <<>>, TRUE)

AllCondition(conds, resp) == AllConditionLoop(conds, resp, 1, <<>>)

\* WithCondition(AllCondition(conds...)) for every list of atoms, and
\* WithCondition(nil).
CondValues ==
    {NilCond} \cup { [isNil |-> FALSE, conds |-> cs] : cs \in SeqsUpTo(Atoms, MaxConds) }

\* --------------------------------------------------------------- options
\* requestOptions as initialised at the top of Client.Do.
DefaultOptions ==
    [timeout |-> DefaultTimeout, interval |-> DefaultInterval, cond |-> NilCond]

WithTimeout(d) == [field |-> "timeout", d |-> d, cond |-> NilCond]
WithInterval(d) == [field |-> "interval", d |-> d, cond |-> NilCond]
WithCondition(c) == [field |-> "cond", d |-> 0, cond |-> c]

\* ApplyOption that takes WithCondition(nil) for "no change".
ApplyOptionIgnoresNil(opt, ro) ==
    IF opt.field = "timeout" THEN [ro EXCEPT !.timeout = opt.d]
    ELSE IF opt.field = "interval" THEN [ro EXCEPT !.interval = opt.d]
    ELSE IF opt.cond.isNil THEN ro
    ELSE [ro EXCEPT !.cond = opt.cond]

\* opt(&requestOptions)
ApplyOption(opt, ro) ==
    IF opt.field = "timeout" THEN [ro EXCEPT !.timeout = opt.d]
    ELSE IF opt.field = "interval" THEN [ro EXCEPT !.interval = opt.d]
    ELSE [ro EXCEPT !.cond = opt.cond]

\* for _, opt := range opts { opt(&requestOptions) }
RECURSIVE ApplyOptions(_, _)
ApplyOptions(opts, ro) ==
    IF opts = <<>> THEN ro
    ELSE ApplyOptions(Tail(opts), ApplyOption(Head(opts), ro))

Options ==
    { WithTimeout(d) : d \in TimeoutChoices }
    \cup { WithInterval(d) : d \in IntervalChoices }
    \cup { WithCondition(c) : c \in CondValues }

OptionLists == SeqsUpTo(Options, MaxOpts)

\* ----------------------------------------------------- responses, errors
NilErr == [kind |-> "nil", StatusCode |-> 0, Message |-> <<>>]
\* The errors req.Do can return.
TransportErrors ==
    { [kind |-> "transport", StatusCode |-> 0, Message |-> <<m>>] :
        m \in {"EOF", "connection refused"} }
\* The error of a response body that fails while it is read.
ErrRead == [kind |-> "read", StatusCode |-> 0, Message |-> <<"unexpected EOF">>]
\* The *json.SyntaxError of json.Unmarshal.
ErrJSON == [kind |-> "json", StatusCode |-> 0, Message |-> <<"unexpected end of JSON input">>]
\* context.DeadlineExceeded
DeadlineExceeded == [kind |-> "context.DeadlineExceeded", StatusCode |-> 0, Message |-> <<>>]

\* An io.Reader over bytes: data, the read position, and whether reading fails.
NilBody == [data |-> <<>>, pos |-> 0, err |-> FALSE]
NilResp == [isNil |-> TRUE, StatusCode |-> 0, Body |-> NilBody]

\* What req.Do(ctx, transport) can return: an error, or a response.
ReqDoResults ==
    { [resp |-> NilResp, err |-> e] : e \in TransportErrors }
    \cup { [resp |-> [isNil |-> FALSE, StatusCode |-> c,
                      Body |-> [data |-> b, pos |-> 0, err |-> f]],
            err |-> NilErr] :
           c \in StatusCodes, b \in Bodies, f \in BOOLEAN }

\* IsError that takes every status for a success.
IsErrorNever(r) == FALSE

\* resp.IsError()
IsError(r) == r.StatusCode > MaxOkStatus

\* resp.String(): the status and the body text.
RespString(r) ==
    IF r.Body.err THEN <<"<error reading response body>">>
    ELSE SubSeq(r.Body.data, r.Body.pos + 1, Len(r.Body.data))

\* AppError that leaves the status code out.
AppErrorNoStatus(r) ==
    [kind |-> "Error", StatusCode |-> 0, Message |-> RespString(r)]

\* &Error{StatusCode: resp.StatusCode, Message: resp.String()}
AppError(r) ==
    [kind |-> "Error", StatusCode |-> r.StatusCode, Message |-> RespString(r)]

\* io.ReadAll(resp.Body): the bytes from the read position to the end; the
\* stream is left at its end.
ReadAll(s) ==
    IF s.err THEN [bytes |-> <<>>, err |-> ErrRead, stream |-> s]
    ELSE [bytes |-> SubSeq(s.data, s.pos + 1, Len(s.data)), err |-> NilErr,
          stream |-> [s EXCEPT !.pos = Len(s.data)]]

\* NewReader that hands out the bytes already read.
NewReaderConsumed(bytes) == [data |-> bytes, pos |-> Len(bytes), err |-> FALSE]

\* io.NopCloser(bytes.NewReader(body))
NewReader(bytes) == [data |-> bytes, pos |-> 0, err |-> FALSE]

\* The caller's output destination: nil, or a pointer to a value.  The
\* decoded value of a body is its number of hits.
OutInit == [isNil |-> FALSE, val |-> -1]
OutNil == [isNil |-> TRUE, val |-> -1]

ValidJSON(bytes) ==
    /\ Len(bytes) >= 2
    /\ bytes[1] = "{"
    /\ bytes[Len(bytes)] = "}"
    /\ \A i \in 2..(Len(bytes) - 1) : bytes[i] = "h"

\* Unmarshal that takes any bytes and leaves out alone when they are not JSON.
UnmarshalLenient(bytes, o) ==
    IF ValidJSON(bytes)
    THEN [err |-> NilErr, out |-> [o EXCEPT !.val = CountHits(bytes)]]
    ELSE [err |-> NilErr, out |-> o]

\* json.Unmarshal(body, out): the syntax is checked before out is written.
Unmarshal(bytes, o) ==
    IF ValidJSON(bytes)
    THEN [err |-> NilErr, out |-> [o EXCEPT !.val = CountHits(bytes)]]
    ELSE [err |-> ErrJSON, out |-> o]

\* --------------------------------------------------------- query builders
\* JSON values: null, a number, a string, an array of values, an object (a
\* function from its keys to values).
NoKeys == [k \in {} |-> 0]
JNull == [t |-> "null", n |-> 0, s |-> "", a |-> <<>>, o |-> NoKeys]
JNum(n) == [t |-> "num", n |-> n, s |-> "", a |-> <<>>, o |-> NoKeys]
JStr(x) == [t |-> "str", n |-> 0, s |-> x, a |-> <<>>, o |-> NoKeys]
JArr(xs) == [t |-> "arr", n |-> 0, s |-> "", a |-> xs, o |-> NoKeys]
JObj(f) == [t |-> "obj", n |-> 0, s |-> "", a |-> <<>>, o |-> f]

\* m[k] = v of a Go map.
MapSet(m, k, v) == [x \in (DOMAIN m) \cup {k} |-> IF x = k THEN v ELSE m[x]]
\* map[string]any{k: v}
MapOf(k, v) == [x \in {k} |-> v]

\* json.Marshal of a struct whose fields are all omitempty: the fields
\* whose value is not empty (zero, or an array of length 0).
IsEmptyValue(v) ==
    \/ v.t = "null"
    \/ v.t = "num" /\ v.n = 0
    \/ v.t = "str" /\ v.s = ""
    \/ v.t = "arr" /\ v.a = <<>>
OmitEmpty(f) == [k \in { x \in DOMAIN f : ~IsEmptyValue(f[x]) } |-> f[k]]

\* func encodeQueryJSON(k string, v any); a slice is an empty slice here,
\* never the nil slice (which json.Marshal writes as null).
encodeQueryJSON(k, v) == JObj(MapOf(k, v))

\* The query values: one record shape for the five builder types.
QueryFields == {"status", "boost"}
BoostChoices == {0, 2}
ClauseLists == { <<>>, <<JStr("q")>> }
ValueLists == { <<>>, <<JStr("a")>>, <<JStr("a"), JStr("b")>> }
BlankQuery ==
    [kind |-> "none", Field |-> "", Value |-> JNull, Values |-> <<>>,
     Boost |-> 0, Filter |-> <<>>, Must |-> <<>>, MustNot |-> <<>>,
     Should |-> <<>>, MinimumShouldMatch |-> 0]

BoolQueries ==
    { [BlankQuery EXCEPT !.kind = "bool", !.Filter = f, !.Must = m,
                         !.MustNot = mn, !.Should = sh,
                         !.MinimumShouldMatch = msm, !.Boost = b] :
        f \in ClauseLists, m \in ClauseLists, mn \in ClauseLists,
        sh \in ClauseLists, msm \in {0, 1}, b \in BoostChoices }
ExistsQueries ==
    { [BlankQuery EXCEPT !.kind = "exists", !.Field = f] : f \in QueryFields }
TermQueries ==
    { [BlankQuery EXCEPT !.kind = "term", !.Field = f, !.Value = JStr("ok"),
                         !.Boost = b] :
        f \in QueryFields, b \in BoostChoices }
TermsQueries ==
    { [BlankQuery EXCEPT !.kind = "terms", !.Field = f, !.Values = vs,
                         !.Boost = b] :
        f \in QueryFields, vs \in ValueLists, b \in BoostChoices }
MatchPhraseQueries ==
    { [BlankQuery EXCEPT !.kind = "match_phrase", !.Field = f,
                         !.Value = JStr("ok")] : f \in QueryFields }
Queries ==
    BoolQueries \cup ExistsQueries \cup TermQueries \cup TermsQueries
    \cup MatchPhraseQueries

\* func (q BoolQuery) MarshalJSON()
BoolQueryMarshalJSON(q) ==
    encodeQueryJSON("bool", JObj(OmitEmpty(
        [k \in {"filter", "must", "must_not", "should",
                "minimum_should_match", "boost"} |->
            IF k = "filter" THEN JArr(q.Filter)
            ELSE IF k = "must" THEN JArr(q.Must)
            ELSE IF k = "must_not" THEN JArr(q.MustNot)
            ELSE IF k = "should" THEN JArr(q.Should)
            ELSE IF k = "minimum_should_match" THEN JNum(q.MinimumShouldMatch)
            ELSE JNum(q.Boost)])))

\* func (q ExistsQuery) MarshalJSON()
ExistsQueryMarshalJSON(q) ==
    encodeQueryJSON("exists", JObj(MapOf("field", JStr(q.Field))))

\* func (q TermQuery) MarshalJSON(): value is always there, boost omitempty.
TermQueryMarshalJSON(q) ==
    encodeQueryJSON("term", JObj(MapOf(q.Field,
        JObj(IF q.Boost = 0 THEN MapOf("value", q.Value)
             ELSE MapSet(MapOf("value", q.Value), "boost", JNum(q.Boost))))))

\* func (q TermsQuery) MarshalJSON()
TermsQueryMarshalJSON(q) ==
    LET args == MapOf(q.Field, JArr(q.Values))
    IN encodeQueryJSON("terms",
           JObj(IF q.Boost # 0 THEN MapSet(args, "boost", JNum(q.Boost))
                ELSE args))

\* func (q MatchPhraseQuery) MarshalJSON()
MatchPhraseQueryMarshalJSON(q) ==
    encodeQueryJSON("match_phrase", JObj(MapOf(q.Field, q.Value)))

MarshalJSON(q) ==
    IF q.kind = "bool" THEN BoolQueryMarshalJSON(q)
    ELSE IF q.kind = "exists" THEN ExistsQueryMarshalJSON(q)
    ELSE IF q.kind = "term" THEN TermQueryMarshalJSON(q)
    ELSE IF q.kind = "terms" THEN TermsQueryMarshalJSON(q)
    ELSE MatchPhraseQueryMarshalJSON(q)

\* ------------------------------------------------------------------ state
VARIABLES
    pc,              \* "start", "reqDo" (inside req.Do), "select" (inside the
                     \* select), "done" (returned), "panic"
    requestOptions,  \* the effective options
    out,             \* the caller's output destination
    transport,       \* "es", or "bodyRepeater" wrapping it
    timeoutC,        \* "nil", or the timer's channel: "empty" or "ready"
    tickerC,         \* "nil", or the ticker's channel: "empty" or "ready"
    timer,           \* the deadline timer: running, and the time left to fire
    ticker,          \* the poll ticker: running, and the time left to the tick
    defers,          \* the deferred calls, in the order they were deferred
    resp,            \* the variable resp of Client.Do
    ret,             \* what Client.Do returned: resp and err
    attempts,        \* number of req.Do calls started
    condFalse,       \* number of attempts on which the condition was false
    lastResult,      \* what req.Do returned to the last attempt
    lastOutcome,     \* how the last attempt ended
    condCalls,       \* the conditions invoked by the last evaluation
    selects,         \* number of times the select was entered
    created,         \* number of timers and of tickers created
    openBodies,      \* number of transport response bodies not closed yet
    opts,            \* the options of the call that the loop has yet to apply
    applied,         \* the options the loop has applied, in order
    request,         \* the request: its body stream, and the bytes it was
                     \* built with
    repeater,        \* the bodyRepeater: instances created, the captured
                     \* body, and the number of times a body was captured
    delivered,       \* the body bytes handed to the wrapped transport by the
                     \* first and by the last req.Do
    query,           \* a query value of the builders
    encoded,         \* the JSON that MarshalJSON made of it
    steps            \* what the current attempt has done with its result, in order

vars == <<pc, requestOptions, out, transport, timeoutC, tickerC, timer, ticker,
          defers, resp, ret, attempts, condFalse, lastResult, lastOutcome,
          condCalls, selects, created, openBodies, opts, applied,
          request, repeater, delivered, query, encoded, steps>>

queryVars == <<query, encoded>>
replayVars == <<request, repeater, delivered>>

Stopped == [running |-> FALSE, left |-> 0]
NoReturn == [resp |-> NilResp, err |-> NilErr]
NoResult == [resp |-> NilResp, err |-> NilErr]

\* The request of the call with the body bytes b.
NewRequest(b) == [Body |-> [data |-> b, pos |-> 0, err |-> FALSE], bytes |-> b]
NoRepeater == [instances |-> 0, captured |-> FALSE, buf |-> <<>>, captures |-> 0]
NoneDelivered == [first |-> <<>>, last |-> <<>>]

\* Before the call, whatever its inputs are.
Fresh ==
    /\ pc = "start"
    /\ requestOptions = DefaultOptions
    /\ out = OutNil
    /\ transport = "es"
    /\ timeoutC = "nil"
    /\ tickerC = "nil"
    /\ timer = Stopped
    /\ ticker = Stopped
    /\ defers = <<>>
    /\ resp = NilResp
    /\ ret = NoReturn
    /\ attempts = 0
    /\ condFalse = 0
    /\ lastResult = NoResult
    /\ lastOutcome = "none"
    /\ condCalls = <<>>
    /\ selects = 0
    /\ created = [timers |-> 0, tickers |-> 0]
    /\ openBodies = 0
    /\ applied = <<>>
    /\ repeater = NoRepeater
    /\ delivered = NoneDelivered
    /\ encoded = JNull
    /\ steps = <<>>

Init ==
    /\ Fresh
    /\ opts = <<>>
    /\ query = BlankQuery
    /\ request = NewRequest(<<"q", "u">>)

\* WrapsTransport of a call that never wraps the transport.
WrapsTransportNever(ro) == FALSE

\* if requestOptions.cond != nil { transport = &bodyRepeater{transport, nil}
WrapsTransport(ro) == ~ro.cond.isNil

\* ArmsTimer of a call that never creates the timer.
ArmsTimerNever(ro) == FALSE

\* ArmsTimer without the test of the timeout.
ArmsTimerAnyTimeout(ro) == ~ro.cond.isNil

\* if requestOptions.cond != nil { ... if requestOptions.timeout > 0 {
ArmsTimer(ro) == ~ro.cond.isNil /\ ro.timeout > 0

\* Satisfied with a nil condition counted as not satisfied.
SatisfiedNilRetries(ro, r) ==
    IF ro.cond.isNil THEN [result |-> FALSE, calls |-> <<>>]
    ELSE AllCondition(ro.cond.conds, r)

\* Satisfied without the call of the condition.
SatisfiedAlways(ro, r) == [result |-> TRUE, calls |-> <<>>]

\* requestOptions.cond == nil || requestOptions.cond(resp)
Satisfied(ro, r) ==
    IF ro.cond.isNil THEN [result |-> TRUE, calls |-> <<>>]
    ELSE AllCondition(ro.cond.conds, r)

\* A counter that stops at MaxAttempts.
Bump(n) == IF n < MaxAttempts THEN n + 1 ELSE n

\* The deferred calls run when Client.Do returns or panics.
Has(ds, d) == \E i \in 1..Len(ds) : ds[i] = d
Count(ds, d) == Cardinality({ i \in 1..Len(ds) : ds[i] = d })

TimerAfterDefers(t, ds) ==
    IF Has(ds, "timeout.Stop") THEN [t EXCEPT !.running = FALSE] ELSE t
\* TickerAfterDefers of a call that never stops the ticker.
TickerAfterDefersLeaks(t, ds) == t

TickerAfterDefers(t, ds) ==
    IF Has(ds, "ticker.Stop") THEN [t EXCEPT !.running = FALSE] ELSE t

\* OpenAfterDefers of a call whose deferred Close calls do not run.
OpenAfterDefersNoClose(n, ds) == n

\* Each deferred resp.Body.Close closes the body of its own response.
OpenAfterDefers(n, ds) == n - Count(ds, "resp.Body.Close")

\* defer d(): at most MaxAttempts deferred calls of a kind are kept.
Defer(ds, d) == IF Count(ds, d) < MaxAttempts THEN Append(ds, d) ELSE ds

\* return r, e with nOpen response bodies open: the deferred calls ds run and
\* the call is over.
Return(r, e, ds, nOpen) ==
    /\ pc' = "done"
    /\ ret' = [resp |-> r, err |-> e]
    /\ timer' = TimerAfterDefers(timer, ds)
    /\ ticker' = TickerAfterDefers(ticker, ds)
    /\ openBodies' = OpenAfterDefers(nOpen, ds)
    /\ defers' = <<>>

\* -------------------------------------------------------------- transport
\* The transport below Client.Do sends the request: it reads the request
\* body from its read position to its end.
Send(body) ==
    [bytes |-> SubSeq(body.data, body.pos + 1, Len(body.data)),
     body |-> [body EXCEPT !.pos = Len(body.data)]]

\* bodyRepeater, before it hands the request on: the first time it reads
\* the whole body (if there is one), keeps the bytes and puts a fresh stream
\* over them in the request; every other time it puts a fresh stream over
\* the bytes it has kept.
Replay(r, body) ==
    IF body.data = <<>> THEN [rep |-> r, body |-> body]
    ELSE IF ~r.captured
    THEN LET rd == ReadAll(body)
         IN [rep |-> [r EXCEPT !.captured = TRUE, !.buf = rd.bytes,
                                !.captures = @ + 1],
             body |-> [data |-> rd.bytes, pos |-> 0, err |-> FALSE]]
    ELSE [rep |-> r, body |-> [data |-> r.buf, pos |-> 0, err |-> FALSE]]

\* transport.Perform(request) as req.Do calls it, with tr the transport of
\* the call: the repeater, the request body and the bytes sent afterwards.
Perform(tr, r, body) ==
    LET w == IF tr = "bodyRepeater" THEN Replay(r, body)
             ELSE [rep |-> r, body |-> body]
        sent == Send(w.body)
    IN [rep |-> w.rep, body |-> sent.body, bytes |-> sent.bytes]

\* -------------------------------------------------------------- Client.Do
\* The call from the end of the option loop on, with the effective options
\* ro and the destination o: the transport is wrapped and the timer armed
\* if a condition is set, and the first iteration of the loop (tickerC is
\* nil) calls req.Do.
EnterWith(ro, o) ==
    /\ requestOptions' = ro
    /\ out' = o
    /\ transport' = IF WrapsTransport(ro) THEN "bodyRepeater" ELSE "es"
    /\ LET made == IF WrapsTransport(ro)
                   THEN [repeater EXCEPT !.instances = @ + 1] ELSE repeater
           p == Perform(transport', made, request.Body)
       IN /\ repeater' = p.rep
          /\ request' = [request EXCEPT !.Body = p.body]
          /\ delivered' = [first |-> p.bytes, last |-> p.bytes]
    /\ IF ArmsTimer(ro)
       THEN /\ timer' = [running |-> TRUE, left |-> ro.timeout]
            /\ timeoutC' = "empty"
            /\ defers' = <<"timeout.Stop">>
            /\ created' = [created EXCEPT !.timers = @ + 1]
       ELSE UNCHANGED <<timer, timeoutC, defers, created>>
    /\ pc' = "reqDo"
    /\ attempts' = 1
    /\ UNCHANGED <<tickerC, ticker, resp, ret, condFalse, lastResult,
                   lastOutcome, condCalls, selects, openBodies>>
    /\ UNCHANGED queryVars
    /\ steps' = <<>>

\* Client.Do is called with some options: they are applied and the call
\* goes on to its first req.Do.
Enter ==
    /\ pc = "start"
    /\ \E os \in OptionLists, o \in {OutNil, OutInit} :
        EnterWith(ApplyOptions(os, DefaultOptions), o)
    /\ UNCHANGED <<opts, applied>>

\* One iteration of the loop from the return of req.Do on: r is what req.Do
\* returned, o the output destination.  The result names how the iteration
\* ends, the variable resp, the destination and the error to return.
AttemptResult(r, ro, o) ==
    IF r.err # NilErr
    THEN [outcome |-> "transportErr", resp |-> r.resp, out |-> o,
          err |-> r.err, calls |-> <<>>, steps |-> <<"err">>]
    ELSE IF IsError(r.resp)
    THEN [outcome |-> "appErr", resp |-> r.resp, out |-> o,
          err |-> AppError(r.resp), calls |-> <<>>,
          steps |-> <<"err", "IsError">>]
    ELSE LET rd == ReadAll(r.resp.Body)
             read == [r.resp EXCEPT !.Body = rd.stream]
         IN
         IF rd.err # NilErr
         THEN [outcome |-> "readErr", resp |-> read, out |-> o,
               err |-> rd.err, calls |-> <<>>,
               steps |-> <<"err", "IsError", "ReadAll">>]
         ELSE LET um == IF o.isNil THEN [err |-> NilErr, out |-> o]
                        ELSE Unmarshal(rd.bytes, o)
                  decoded == <<"err", "IsError", "ReadAll">>
                             \o (IF o.isNil THEN <<>> ELSE <<"Unmarshal">>)
              IN
              IF um.err # NilErr
              THEN [outcome |-> "decodeErr", resp |-> read, out |-> um.out,
                    err |-> um.err, calls |-> <<>>, steps |-> decoded]
              ELSE LET fresh == [read EXCEPT !.Body = NewReader(rd.bytes)]
                       ev == Satisfied(ro, fresh)
                   IN [outcome |-> IF ev.result THEN "satisfied" ELSE "condFalse",
                       resp |-> fresh, out |-> um.out, err |-> NilErr,
                       calls |-> ev.calls,
                       steps |-> decoded \o <<"Body=">>
                                 \o (IF ro.cond.isNil THEN <<>>
                                     ELSE <<"cond">>)]

\* if ticker == nil: no ticker has been created by this call yet.
TickerIsNilAlways(tc) == TRUE
TickerIsNil(tc) == tc = "nil"

\* time.NewTicker panics unless the interval is positive.
NewTickerPanics(ro) == ro.interval <= 0

\* req.Do returns and the rest of the iteration runs: the call returns, or
\* the ticker is started if it was not and the next iteration enters the
\* select.
ReqDoReturns ==
    /\ pc = "reqDo"
    /\ \E r \in ReqDoResults :
        LET a == AttemptResult(r, requestOptions, out)
            ds == IF r.err = NilErr THEN Defer(defers, "resp.Body.Close")
                  ELSE defers
            nOpen == IF r.err = NilErr THEN Bump(openBodies) ELSE openBodies
        IN
        /\ lastResult' = r
        /\ lastOutcome' = a.outcome
        /\ resp' = a.resp
        /\ out' = a.out
        /\ condCalls' = a.calls
        /\ steps' = a.steps
        /\ IF a.outcome = "satisfied"
           THEN /\ Return(a.resp, NilErr, ds, nOpen)
                /\ UNCHANGED <<tickerC, condFalse, selects, created>>
           ELSE IF a.outcome # "condFalse"
           THEN /\ Return(NilResp, a.err, ds, nOpen)
                /\ UNCHANGED <<tickerC, condFalse, selects, created>>
           ELSE IF ~TickerIsNil(tickerC)
           THEN /\ pc' = "select"
                /\ condFalse' = Bump(condFalse)
                /\ selects' = Bump(selects)
                /\ defers' = ds
                /\ openBodies' = nOpen
                /\ UNCHANGED <<tickerC, ticker, timer, ret, created>>
           ELSE IF NewTickerPanics(requestOptions)
           THEN /\ pc' = "panic"
                /\ condFalse' = Bump(condFalse)
                /\ timer' = TimerAfterDefers(timer, ds)
                /\ ticker' = TickerAfterDefers(ticker, ds)
                /\ openBodies' = OpenAfterDefers(nOpen, ds)
                /\ defers' = <<>>
                /\ UNCHANGED <<tickerC, ret, selects, created>>
           ELSE /\ pc' = "select"
                /\ condFalse' = Bump(condFalse)
                /\ selects' = Bump(selects)
                /\ ticker' = [running |-> TRUE, left |-> requestOptions.interval]
                /\ tickerC' = "empty"
                /\ defers' = Defer(ds, "ticker.Stop")
                /\ created' = [created EXCEPT !.tickers = @ + 1]
                /\ openBodies' = nOpen
                /\ UNCHANGED <<timer, ret>>
    /\ UNCHANGED <<requestOptions, transport, timeoutC, attempts, opts, applied>>
    /\ UNCHANGED replayVars
    /\ UNCHANGED queryVars

\* The timer's channel is received from in the select only.
DeadlineExaminedInFlight(p) == p \in {"select", "reqDo"}
DeadlineExamined(p) == p = "select"

\* case <-timeoutC: return nil, context.DeadlineExceeded
SelectTimeout ==
    /\ DeadlineExamined(pc)
    /\ timeoutC = "ready"
    /\ timeoutC' = "empty"
    /\ Return(NilResp, DeadlineExceeded, defers, openBodies)
    /\ UNCHANGED <<requestOptions, out, transport, tickerC, resp, attempts,
                   condFalse, lastResult, lastOutcome, condCalls, selects,
                   created, opts, applied>>
    /\ UNCHANGED replayVars
    /\ UNCHANGED queryVars
    /\ UNCHANGED steps

\* case <-tickerC: the select is left and req.Do is called again.
SelectTicker ==
    /\ pc = "select"
    /\ tickerC = "ready"
    /\ tickerC' = "empty"
    /\ pc' = "reqDo"
    /\ attempts' = Bump(attempts)
    /\ LET p == Perform(transport, repeater, request.Body)
       IN /\ repeater' = p.rep
          /\ request' = [request EXCEPT !.Body = p.body]
          /\ delivered' = [delivered EXCEPT !.last = p.bytes]
    /\ UNCHANGED <<requestOptions, out, transport, timeoutC, timer, ticker,
                   defers, resp, ret, condFalse, lastResult, lastOutcome,
                   condCalls, selects, created, openBodies, opts, applied>>
    /\ UNCHANGED queryVars
    /\ steps' = <<>>

\* ------------------------------------------------------------------ time
\* The time that passes in one step: one unit, or the jump down to Horizon.
StepLength ==
    IF timer.running /\ timer.left > Horizon THEN timer.left - Horizon ELSE 1

\* The timer after d units: it fires when no time is left.
TimerAfter(t, d) ==
    IF ~t.running THEN t
    ELSE IF t.left <= d THEN [running |-> FALSE, left |-> 0]
    ELSE [t EXCEPT !.left = t.left - d]

TimerFires(t, d) == t.running /\ t.left <= d

\* The ticker after d units: it ticks every interval.
TickerAfter(t, d, interval) ==
    IF ~t.running THEN t
    ELSE IF d < t.left THEN [t EXCEPT !.left = t.left - d]
    ELSE [t EXCEPT !.left = interval - ((d - t.left) % interval)]

TickerTicks(t, d) == t.running /\ d >= t.left

\* Time passes while the call is blocked: inside req.Do, or inside the
\* select with neither channel ready.  A fired timer sends on its channel;
\* a tick is sent unless the channel (of capacity 1) is full.
Advance ==
    /\ \/ pc = "reqDo"
       \/ pc = "select" /\ timeoutC # "ready" /\ tickerC # "ready"
    /\ timer.running \/ ticker.running
    /\ LET d == StepLength IN
        /\ timer' = TimerAfter(timer, d)
        /\ timeoutC' = IF TimerFires(timer, d) THEN "ready" ELSE timeoutC
        /\ ticker' = TickerAfter(ticker, d, requestOptions.interval)
        /\ tickerC' = IF TickerTicks(ticker, d) THEN "ready" ELSE tickerC
    /\ UNCHANGED <<pc, requestOptions, out, transport, defers, resp, ret,
                   attempts, condFalse, lastResult, lastOutcome, condCalls,
                   selects, created, openBodies, opts, applied>>
    /\ UNCHANGED replayVars
    /\ UNCHANGED queryVars
    /\ UNCHANGED steps

Next == Enter \/ ReqDoReturns \/ SelectTimeout \/ SelectTicker \/ Advance

Spec == Init /\ [][Next]_vars

\* Time passes and req.Do returns; a select that is ready takes one of its
\* ready cases, each chosen uniformly at random, so a case that is ready
\* again and again is taken at last.
Fairness ==
    /\ WF_vars(Advance)
    /\ WF_vars(ReqDoReturns)
    /\ SF_vars(SelectTimeout)
    /\ SF_vars(SelectTicker)

LiveSpec == Spec /\ Fairness

\* The call for every request body.
ReplayInit ==
    /\ Fresh
    /\ query = BlankQuery
    /\ opts = <<>>
    /\ \E b \in RequestBodies : request = NewRequest(b)

ReplaySpec == ReplayInit /\ [][Next]_vars

\* ------------------------------------------------- the option loop alone
\* Client.Do is called with a list of options, which the loop at the top of
\* Client.Do applies one by one; the call then goes on to its first req.Do
\* and to the return of that.
OptInit ==
    /\ Fresh
    /\ query = BlankQuery
    /\ opts \in OptionLists
    /\ request = NewRequest(<<"q", "u">>)

\* for _, opt := range opts { opt(&requestOptions) }: one iteration.
ApplyNext ==
    /\ pc = "start"
    /\ opts # <<>>
    /\ requestOptions' = ApplyOption(Head(opts), requestOptions)
    /\ opts' = Tail(opts)
    /\ applied' = Append(applied, Head(opts))
    /\ UNCHANGED <<pc, out, transport, timeoutC, tickerC, timer, ticker,
                   defers, resp, ret, attempts, condFalse, lastResult,
                   lastOutcome, condCalls, selects, created, openBodies>>
    /\ UNCHANGED replayVars
    /\ UNCHANGED queryVars
    /\ UNCHANGED steps

\* The loop is over and the call goes on with the options it has built.
EnterApplied ==
    /\ pc = "start"
    /\ opts = <<>>
    /\ \E o \in {OutNil, OutInit} : EnterWith(requestOptions, o)
    /\ UNCHANGED <<opts, applied>>

OptNext == ApplyNext \/ EnterApplied \/ ReqDoReturns

OptSpec == OptInit /\ [][OptNext]_vars

\* ------------------------------------------------ the query builders alone
\* A query value is built and json.Marshal calls its MarshalJSON.
QueryInit ==
    /\ Fresh
    /\ opts = <<>>
    /\ request = NewRequest(<<"q", "u">>)
    /\ query \in Queries

Marshal ==
    /\ query.kind # "none"
    /\ encoded = JNull
    /\ encoded' = MarshalJSON(query)
    /\ UNCHANGED <<pc, requestOptions, out, transport, timeoutC, tickerC,
                   timer, ticker, defers, resp, ret, attempts, condFalse,
                   lastResult, lastOutcome, condCalls, selects, created,
                   openBodies, opts, applied, query>>
    /\ UNCHANGED replayVars
    /\ UNCHANGED steps

QuerySpec == QueryInit /\ [][Marshal]_vars

\* ============================================================ properties
\* The call has been made with a condition / without one.
Called == pc # "start"
NoCondition == Called /\ requestOptions.cond.isNil
HasCondition == Called /\ ~requestOptions.cond.isNil

\* What req.Do returned is a response without error status whose body can
\* be read and, when a destination was supplied, decoded.
GoodResult(r, o) ==
    /\ r.err = NilErr
    /\ ~r.resp.isNil
    /\ r.resp.StatusCode \in 200..299
    /\ ~r.resp.Body.err
    /\ o.isNil \/ ValidJSON(r.resp.Body.data)

\* Every configured condition is true on the response.
CondTrueOn(ro, r) ==
    \A i \in 1..Len(ro.cond.conds) : EvalAtom(ro.cond.conds[i], r)

Succeeded == pc = "done" /\ ret.err = NilErr
Failed == pc = "done" /\ ret.err # NilErr

\* C1: without a condition exactly one attempt is made, whatever the
\* response, timeout and interval are; the call succeeds iff that attempt
\* returned a good result, and no timer or ticker is created or waited on.
C1_NoConditionOneAttempt ==
    NoCondition =>
        /\ attempts = 1
        /\ pc \in {"reqDo", "done"}
        /\ selects = 0
        /\ condFalse = 0
        /\ timeoutC = "nil"
        /\ tickerC = "nil"
        /\ created = [timers |-> 0, tickers |-> 0]
        /\ pc = "done" => (ret.err = NilErr <=> GoodResult(lastResult, out))

\* A call without condition returned a response that has no hits, with a
\* zero interval configured.
C1_Witness ==
    /\ NoCondition
    /\ Succeeded
    /\ requestOptions.interval = 0
    /\ CountHits(ret.resp.Body.data) = 0

\* The state part of C2.
C2_Inv ==
    HasCondition =>
        /\ (lastOutcome # "none" /\ GoodResult(lastResult, out)
              /\ CondTrueOn(requestOptions, lastResult.resp))
           => (Succeeded /\ (attempts < MaxAttempts => attempts = condFalse + 1))
        /\ Succeeded =>
              /\ GoodResult(lastResult, out)
              /\ CondTrueOn(requestOptions, lastResult.resp)
        /\ (pc = "reqDo" /\ attempts < MaxAttempts) => condFalse = attempts - 1
        /\ (pc = "select" /\ attempts < MaxAttempts) => condFalse = attempts

\* C2: with a condition, the attempt on which req.Do returns a good result
\* that satisfies the condition ends the call with success, and it is
\* attempt K when the condition was false on K-1 attempts; the call never
\* succeeds on a response that fails the condition, and it leaves the select
\* by returning only when the deadline timer has fired.
C2_SuccessAfterExactlyK ==
    /\ []C2_Inv
    /\ [][(pc = "select" /\ pc' = "done") => timeoutC = "ready"]_vars

\* The call succeeded on its third attempt.
C2_Witness ==
    /\ HasCondition
    /\ Succeeded
    /\ attempts = 3
    /\ condFalse = 2

\* C3: with a condition, a positive timeout and a positive interval the call
\* terminates, and a call whose attempts all returned a response on which
\* the condition was false terminates with context.DeadlineExceeded and a
\* nil response.
C3_DeadlineTerminates ==
    /\ [](( pc = "done" /\ HasCondition /\ lastOutcome = "condFalse")
            => ret = [resp |-> NilResp, err |-> DeadlineExceeded])
    /\ (HasCondition /\ requestOptions.timeout > 0 /\ requestOptions.interval > 0)
         ~> (pc = "done")

\* The deadline ended a call after MaxAttempts attempts or more.
C3_Witness ==
    /\ pc = "done"
    /\ ret.err = DeadlineExceeded
    /\ requestOptions.timeout = 2
    /\ requestOptions.interval = 2
    /\ attempts = MaxAttempts

\* C4: once the deadline timer has fired no attempt is started: the select
\* is never left for req.Do while timeoutC is ready.
C4_NoAttemptAfterDeadline ==
    [][(pc = "select" /\ timeoutC = "ready") => pc' # "reqDo"]_vars

\* An attempt ends the call with an error: what req.Do returned is an
\* error, or a response with an error status.
TerminalResult(r) == r.err # NilErr \/ r.resp.StatusCode > 299

\* The state part of C5.
C5_Inv ==
    (lastOutcome # "none" /\ TerminalResult(lastResult)) =>
        /\ Failed
        /\ ret.resp = NilResp
        /\ ret.err.kind \in {"transport", "Error"}

\* C5: an attempt on which req.Do returns an error or a response with an
\* error status ends the call with a failure and no further attempt; an
\* attempt other than the first starts only after a good response on which
\* the condition was false.
C5_TerminalErrorsNotRetried ==
    /\ []C5_Inv
    /\ [][(pc \in {"reqDo", "select"} /\ pc' \in {"reqDo", "select"} /\ pc' # pc)
            => /\ HasCondition
               /\ GoodResult(lastResult', out)
               /\ ~CondTrueOn(requestOptions, lastResult'.resp)]_vars

\* The second attempt of a call with a condition got an error status while
\* the deadline timer still had time left.
C5_Witness ==
    /\ HasCondition
    /\ Failed
    /\ ret.err.kind = "Error"
    /\ attempts = 2
    /\ timer.left > 0

\* The error the last attempt ends the call with, NilErr if it does not.
ExpectedError(r, o) ==
    IF r.err # NilErr THEN r.err
    ELSE IF r.resp.StatusCode > 299
    THEN [kind |-> "Error", StatusCode |-> r.resp.StatusCode,
          Message |-> IF r.resp.Body.err THEN <<"<error reading response body>">>
                      ELSE r.resp.Body.data]
    ELSE IF r.resp.Body.err THEN ErrRead
    ELSE IF ~o.isNil /\ ~ValidJSON(r.resp.Body.data) THEN ErrJSON
    ELSE NilErr

\* The state part of C6.
C6_Inv ==
    pc = "done" =>
        /\ ret.resp.isNil <=> ret.err # NilErr
        /\ ret.err # NilErr => ret.resp = NilResp
        /\ ExpectedError(lastResult, out) # NilErr
              => ret.err = ExpectedError(lastResult, out)
        /\ ExpectedError(lastResult, out) = NilErr
              => ret.err \in {NilErr, DeadlineExceeded}

\* C6: a call returns either a response and no error, or no response and
\* one error: the error of req.Do, an Error with the status code and text of
\* the response, the read or decode error, or context.DeadlineExceeded from
\* the select.
C6_OneErrorOrOneResponse ==
    /\ []C6_Inv
    /\ [][(pc = "select" /\ pc' = "done")
            <=> (pc # "done" /\ pc' = "done" /\ ret'.err = DeadlineExceeded)]_vars

\* A call failed with the Error of a 404 response that has a body.
C6_Witness ==
    /\ Failed
    /\ ret.err.kind = "Error"
    /\ ret.err.StatusCode = 404
    /\ Len(ret.err.Message) = 3

\* The state part of C7.
C7_Inv ==
    /\ (pc = "done" /\ ret.err = DeadlineExceeded) =>
          /\ HasCondition
          /\ requestOptions.timeout > 0
          /\ condFalse >= 1
          /\ ~CondTrueOn(requestOptions, lastResult.resp)
    /\ (HasCondition /\ requestOptions.timeout <= 0) =>
          /\ created.timers = 0
          /\ timeoutC = "nil"
          /\ ~timer.running
          /\ pc = "done" =>
                /\ ret.err # DeadlineExceeded
                /\ \/ ExpectedError(lastResult, out) # NilErr
                   \/ CondTrueOn(requestOptions, lastResult.resp)

\* C7: context.DeadlineExceeded is returned only with a condition and a
\* positive timeout, after an attempt on which the condition was false; with
\* a condition and a timeout of zero or less no timer is created, the call
\* returns only from an attempt that satisfied the condition or failed, and
\* from the select it always goes on to the next attempt.
C7_DeadlineOnlyWithPositiveTimeout ==
    /\ []C7_Inv
    /\ (HasCondition /\ requestOptions.timeout <= 0 /\ pc = "select")
         ~> (pc = "reqDo")

\* A call with a zero timeout is in the select after MaxAttempts attempts.
C7_Witness ==
    /\ HasCondition
    /\ requestOptions.timeout = 0
    /\ pc = "select"
    /\ attempts = MaxAttempts
    /\ condFalse = MaxAttempts

\* C8: the response of a successful call is the response of the last
\* attempt, with the body as a fresh stream over all its bytes; the
\* condition is true on it and the destination holds its decoded body.
C8_SuccessReturnsLastResponse ==
    Succeeded =>
        /\ ~ret.resp.isNil
        /\ ret.resp = resp
        /\ ret.resp.StatusCode = lastResult.resp.StatusCode
        /\ ret.resp.Body = [data |-> lastResult.resp.Body.data, pos |-> 0,
                            err |-> FALSE]
        /\ HasCondition => CondTrueOn(requestOptions, ret.resp)
        /\ ~out.isNil => out.val = Len(ret.resp.Body.data) - 2

\* A call with a condition and a destination succeeded on its second
\* attempt with a response that has a hit.
C8_Witness ==
    /\ HasCondition
    /\ Succeeded
    /\ attempts = 2
    /\ out = [isNil |-> FALSE, val |-> 1]

\* The index of the first condition that is false on r, Len(cs) + 1 if none.
FirstFalse(cs, r) ==
    IF \A i \in 1..Len(cs) : EvalAtom(cs[i], r) THEN Len(cs) + 1
    ELSE CHOOSE i \in 1..Len(cs) :
            /\ ~EvalAtom(cs[i], r)
            /\ \A j \in 1..(i - 1) : EvalAtom(cs[j], r)

\* The condition of the call was evaluated by the last attempt.
Evaluated == HasCondition /\ lastOutcome \in {"satisfied", "condFalse"}

\* C9: AllCondition(c1..cn) is true on a response iff every ci is; with no
\* condition it is true; the conditions are invoked in order up to and
\* including the first false one.
C9_AllCondition ==
    Evaluated =>
        LET cs == requestOptions.cond.conds
            n == FirstFalse(cs, resp)
        IN /\ (lastOutcome = "satisfied") <=> (\A i \in 1..Len(cs) : EvalAtom(cs[i], resp))
           /\ cs = <<>> => lastOutcome = "satisfied"
           /\ condCalls = [i \in 1..(IF n > Len(cs) THEN Len(cs) ELSE n) |-> i]

\* The first of two conditions was false and the second was not invoked.
C9_Witness ==
    /\ Evaluated
    /\ Len(requestOptions.cond.conds) = 2
    /\ ~EvalAtom(requestOptions.cond.conds[1], resp)
    /\ EvalAtom(requestOptions.cond.conds[2], resp)
    /\ condCalls = <<1>>

\* C10: a call that is over has no running timer or ticker, and a call
\* creates at most one of each.
C10_TimersStopped ==
    /\ created.timers <= 1
    /\ created.tickers <= 1
    /\ pc \in {"done", "panic"} => (~timer.running /\ ~ticker.running)

\* A call that created both returned while the timer had time left.
C10_Witness ==
    /\ pc = "done"
    /\ created = [timers |-> 1, tickers |-> 1]
    /\ timer.left > 0
    /\ ticker.left > 0

\* C11: a call with a positive timeout T and a positive interval I that
\* returns context.DeadlineExceeded has made at most T/I + 1 attempts, that
\* is (attempts - 1) * I <= T.
C11_AttemptsBounded ==
    ( /\ pc = "done"
      /\ ret.err = DeadlineExceeded
      /\ requestOptions.timeout > 0
      /\ requestOptions.interval > 0 )
    => (attempts - 1) * requestOptions.interval <= requestOptions.timeout

\* The positions of the options in os that set field f.
Setters(os, f) == { i \in 1..Len(os) : os[i].field = f }

Last(S) == CHOOSE i \in S : \A j \in S : j <= i

\* The options that the option list os stands for: for each field what the
\* last option that sets it says, the default if none does.
Effective(os) ==
    [timeout |-> IF Setters(os, "timeout") = {} THEN DefaultTimeout
                 ELSE os[Last(Setters(os, "timeout"))].d,
     interval |-> IF Setters(os, "interval") = {} THEN DefaultInterval
                  ELSE os[Last(Setters(os, "interval"))].d,
     cond |-> IF Setters(os, "cond") = {} THEN NilCond
              ELSE os[Last(Setters(os, "cond"))].cond]

\* os with the options at i and i + 1 exchanged.
Swapped(os, i) ==
    [k \in 1..Len(os) |-> IF k = i THEN os[i + 1]
                          ELSE IF k = i + 1 THEN os[i] ELSE os[k]]

\* C12: the options in effect are, for each field, what the last applied
\* option that sets the field says, and the default (one minute, 100ms, no
\* condition) if none does; exchanging two neighbouring options for
\* different fields gives the same options; and a call whose last
\* WithCondition is WithCondition(nil) runs as a call without condition: no
\* wrapped transport, no timer, no ticker, one attempt.
C12_LastOptionWins ==
    /\ requestOptions = Effective(applied)
    /\ \A i \in 1..(Len(applied) - 1) :
          applied[i].field # applied[i + 1].field
             => ApplyOptions(Swapped(applied, i), DefaultOptions) = requestOptions
    /\ ( /\ Called
         /\ Setters(applied, "cond") # {}
         /\ applied[Last(Setters(applied, "cond"))].cond.isNil )
       => /\ requestOptions.cond.isNil
          /\ transport = "es"
          /\ timeoutC = "nil"
          /\ tickerC = "nil"
          /\ attempts = 1
          /\ pc \in {"reqDo", "done"}

\* A call with a condition, a timeout and then WithCondition(nil) returned.
C12_Witness ==
    /\ pc = "done"
    /\ Len(applied) = 3
    /\ applied[1].field = "cond"
    /\ ~applied[1].cond.isNil
    /\ applied[2] = WithTimeout(2)
    /\ applied[3] = WithCondition(NilCond)
    /\ requestOptions.timeout = 2

\* C13: the transport is wrapped in a bodyRepeater iff a condition is set,
\* by one instance per call; with it, every req.Do of a request that has a
\* body hands the wrapped transport the bytes the request was built with,
\* which are the bytes captured on the first attempt, and the body is
\* captured once.
C13_BodyReplayed ==
    Called =>
        /\ (transport = "bodyRepeater") <=> ~requestOptions.cond.isNil
        /\ repeater.instances = (IF requestOptions.cond.isNil THEN 0 ELSE 1)
        /\ (HasCondition /\ request.bytes # <<>>) =>
              /\ delivered.first = request.bytes
              /\ delivered.last = request.bytes
              /\ repeater.captured
              /\ repeater.buf = request.bytes
              /\ repeater.captures = 1

\* The third req.Do of a call sent the two bytes of the request body.
C13_Witness ==
    /\ HasCondition
    /\ pc = "reqDo"
    /\ attempts = 3
    /\ Len(request.bytes) = 2
    /\ delivered.last = request.bytes

\* The key of the top-level object for each kind of query.
Marshalled == encoded # JNull
Inner == encoded.o[query.kind]

\* C14: a query is encoded as an object with the one key that names its
\* kind; TermQuery and TermsQuery have a boost key iff Boost is not 0,
\* BoolQuery has boost and minimum_should_match iff they are not 0 and a
\* clause key iff the clause list is not empty; and the entry for Field of
\* a TermsQuery is the array of its Values, whatever the name of Field.
C14_QueryJSON ==
    Marshalled =>
        /\ encoded.t = "obj"
        /\ DOMAIN encoded.o = {query.kind}
        /\ Inner.t = "obj"
        /\ query.kind = "term" =>
              /\ DOMAIN Inner.o = {query.Field}
              /\ "value" \in DOMAIN Inner.o[query.Field].o
              /\ ("boost" \in DOMAIN Inner.o[query.Field].o) <=> query.Boost # 0
        /\ query.kind = "terms" =>
              /\ query.Field \in DOMAIN Inner.o
              /\ Inner.o[query.Field] = JArr(query.Values)
              /\ query.Field # "boost" =>
                    (("boost" \in DOMAIN Inner.o) <=> query.Boost # 0)
              /\ query.Boost # 0 =>
                    ("boost" \in DOMAIN Inner.o /\ query.Field # "boost"
                        => Inner.o["boost"] = JNum(query.Boost))
        /\ query.kind = "bool" =>
              /\ ("boost" \in DOMAIN Inner.o) <=> query.Boost # 0
              /\ ("minimum_should_match" \in DOMAIN Inner.o)
                    <=> query.MinimumShouldMatch # 0
              /\ ("filter" \in DOMAIN Inner.o) <=> query.Filter # <<>>
              /\ ("must" \in DOMAIN Inner.o) <=> query.Must # <<>>
              /\ ("must_not" \in DOMAIN Inner.o) <=> query.MustNot # <<>>
              /\ ("should" \in DOMAIN Inner.o) <=> query.Should # <<>>

\* The waits of the call so far are the ones before its later attempts.
C15_Inv ==
    Called =>
        /\ created.tickers <= 1
        /\ (tickerC # "nil") <=> (created.tickers = 1)
        /\ created.tickers = 1 => condFalse >= 1
        /\ (pc = "reqDo" /\ attempts < MaxAttempts) => selects = attempts - 1
        /\ attempts = 1 => (pc = "reqDo" => selects = 0 /\ ~ticker.running)

\* C15: the first attempt starts without a wait, whatever the options; the
\* ticker is created by the step that sees the condition false for the
\* first time and never again; every later attempt is started by a step
\* that takes one tick from the ticker's channel.
C15_TickerLazyOneTickPerAttempt ==
    [][/\ C15_Inv'
       /\ (pc = "start" /\ pc' # "start") =>
             /\ pc' = "reqDo"
             /\ attempts' = 1
             /\ selects' = 0
             /\ tickerC' = "nil"
             /\ created'.tickers = 0
       /\ created'.tickers # created.tickers =>
             /\ pc = "reqDo"
             /\ lastOutcome' = "condFalse"
             /\ condFalse = 0 /\ condFalse' = 1
             /\ created.tickers = 0 /\ created'.tickers = 1
       /\ (pc # "start" /\ attempts' # attempts) =>
             /\ pc = "select" /\ pc' = "reqDo"
             /\ tickerC = "ready" /\ tickerC' = "empty"
             /\ attempts' = attempts + 1
      ]_vars

C15_Witness ==
    /\ pc = "reqDo"
    /\ attempts = 3
    /\ selects = 2
    /\ created.tickers = 1
    /\ condFalse = 2

\* The deadline timer has fired and its value has not been received.
DeadlinePassed == timeoutC = "ready"

\* C16: a step that returns deadline-exceeded is taken in the select, with
\* the timer's channel ready; while req.Do is in flight the call does not
\* return by itself, and when req.Do returns after the timer has fired the
\* result is handled as at any other time: a good result on which the
\* condition is true makes the call return that response without error.
C16_DeadlineOnlyInWait ==
    [][/\ (pc # "done" /\ pc' = "done" /\ ret'.err = DeadlineExceeded) =>
             /\ pc = "select"
             /\ DeadlinePassed
       /\ (pc = "reqDo" /\ DeadlinePassed /\ pc' = "reqDo") =>
             /\ ret' = ret
             /\ attempts' = attempts
       /\ (pc = "reqDo" /\ DeadlinePassed /\ pc' # "reqDo") =>
             /\ ret'.err # DeadlineExceeded
             /\ ret'.err = ExpectedError(lastResult', out)
             /\ ( /\ GoodResult(lastResult', out)
                  /\ CondTrueOn(requestOptions, lastResult'.resp) ) =>
                     /\ pc' = "done"
                     /\ ret'.err = NilErr
                     /\ ret'.resp = resp'
                     /\ ~ret'.resp.isNil
       /\ (pc = "reqDo" /\ pc' = "done") =>
             ret'.err # DeadlineExceeded
      ]_vars

C16_Witness ==
    /\ Succeeded
    /\ HasCondition
    /\ DeadlinePassed
    /\ attempts = 2
    /\ requestOptions.timeout > 0

\* The steps of an attempt in the order of the code.
StepOrder == <<"err", "IsError", "ReadAll", "Unmarshal", "Body=", "cond">>
Rank(x) == CHOOSE i \in 1..Len(StepOrder) : StepOrder[i] = x
Did(x) == \E i \in 1..Len(steps) : steps[i] = x

\* The state part of C17: an attempt in flight has done nothing with its
\* result yet; otherwise steps is what the last attempt did.
C17_Inv ==
    /\ pc = "reqDo" => steps = <<>>
    /\ pc # "reqDo" =>
        /\ \A i \in 1..Len(steps) : \E j \in 1..Len(StepOrder) : steps[i] = StepOrder[j]
        /\ \A i, j \in 1..Len(steps) : i < j => Rank(steps[i]) < Rank(steps[j])
        /\ Did("IsError") => Did("err") /\ lastResult.err = NilErr
        /\ Did("ReadAll") => Did("IsError") /\ lastResult.resp.StatusCode <= MaxOkStatus
        /\ Did("Unmarshal") => Did("ReadAll") /\ ~lastResult.resp.Body.err /\ ~out.isNil
        /\ Did("Body=") =>
              /\ Did("ReadAll")
              /\ Did("Unmarshal") <=> ~out.isNil
              /\ GoodResult(lastResult, out)
              /\ resp.Body = NewReader(lastResult.resp.Body.data)
        /\ Did("cond") =>
              /\ Did("Body=")
              /\ HasCondition
              /\ GoodResult(lastResult, out)
        /\ ~Did("cond") => condCalls = <<>>
        /\ lastOutcome \in {"transportErr", "appErr", "readErr", "decodeErr"} =>
              ~Did("cond") /\ ~Did("Body=")
        /\ lastOutcome = "appErr" => steps = <<"err", "IsError">>
        /\ lastOutcome = "decodeErr" => steps = <<"err", "IsError", "ReadAll", "Unmarshal">>
        /\ (HasCondition /\ lastOutcome \in {"satisfied", "condFalse"}) => Did("cond")

\* C17: an attempt handles its result in the order of StepOrder, each step
\* at most once; the condition is called only after a response without
\* error status was read to its end and decoded, never on an error
\* response or after a decode failure; and the next attempt starts only in
\* the select, after the attempt before it has read its body and called
\* the condition.
C17_FixedOrderSequential ==
    [][/\ C17_Inv'
       /\ (pc # "start" /\ attempts' # attempts) =>
             /\ pc = "select"
             /\ lastOutcome = "condFalse"
             /\ Did("ReadAll") /\ Did("cond")
             /\ steps' = <<>>
       /\ steps' # steps /\ steps' # <<>> => pc = "reqDo" /\ steps = <<>>
      ]_vars

\* The second attempt went through all six steps and the call waits for
\* the third.
C17_Witness ==
    /\ pc = "select"
    /\ attempts = 2
    /\ lastOutcome = "condFalse"
    /\ steps = StepOrder

\* C18: a call that returns an error leaves the destination as it was when
\* the call started.
C18_NoPartialState ==
    Failed => out.val = OutInit.val

\* The call is running: req.Do is in flight or the call waits in the select.
Running == pc \in {"reqDo", "select"}
Over == pc \in {"done", "panic"}

\* The state part of C19.  Every attempt before the one in flight got a
\* response on which the condition was false, or the call would be over.
C19_Inv ==
    /\ Running =>
          /\ openBodies = condFalse
          /\ Count(defers, "resp.Body.Close") = openBodies
          /\ attempts < MaxAttempts =>
                openBodies = (IF pc = "reqDo" THEN attempts - 1 ELSE attempts)
    /\ Over =>
          /\ openBodies = 0
          /\ defers = <<>>
    /\ Succeeded =>
          /\ ReadAll(ret.resp.Body).err = NilErr
          /\ ReadAll(ret.resp.Body).bytes = lastResult.resp.Body.data

\* C19: while the call runs the body of every response it got is open, one
\* deferred Close is pending for each, and a body is closed only by the
\* step that ends the call, which closes them all; the body of the
\* returned response can still be read to its end by the caller.
C19_BodiesClosedAtReturn ==
    [][/\ C19_Inv'
       /\ openBodies' < openBodies => (Running /\ Over')
       /\ (Running /\ Over') =>
             /\ openBodies' = 0
             /\ defers' = <<>>
       /\ (Running /\ Running') => openBodies' >= openBodies
      ]_vars

\* A call returned after three responses and all three bodies are closed.
C19_Witness ==
    /\ Succeeded
    /\ attempts = 3
    /\ condFalse = 2
    /\ openBodies = 0
    /\ ret.resp.Body.data # <<>>

====
